---------------------------- MODULE Spec2Model ----------------------------
(***************************************************************************)
(* A model of the file layer of osm-pbf: the blob constructors of          *)
(* io/blob.rs, the streaming IndexedReader and the filtered iterators of   *)
(* io/indexed_reader.rs, the memory-mapped MmapBlobReader /                *)
(* ParallelMmapBlobReader of io/mmap_blob.rs, and the Reader of            *)
(* io/reader.rs (for_each, for_each_filtered, collect_filtered,            *)
(* par_map_reduce), together with the StringTable of                       *)
(* blocks/string_table.rs.                                                 *)
(*                                                                         *)
(* The input file is a sequence of bytes.  The source reads a frame as a   *)
(* 4-byte big-endian length followed by that many bytes; the length is     *)
(* decoded from the bytes exactly as u32::from_be_bytes does.  The         *)
(* streaming reader is modelled over an in-memory cursor (as in the        *)
(* repository's tests), whose only read failure is UnexpectedEof.          *)
(***************************************************************************)
EXTENDS Integers, Sequences, FiniteSets, TLC

\* Longest input file, in bytes.
MaxFileLen == 8

\* The byte values input files are drawn from.  With them a length prefix
\* can be 0, 1, 2 (small complete frames), 65 537 = <<0,1,0,1>> (above the
\* header limit) or 33 554 433 = <<2,0,0,1>> (above the message limit).
ByteValues == {0, 1, 2}

\* io/blob.rs: the two size limits.
MAX_BLOB_HEADER_SIZE == 65536
MAX_BLOB_MESSAGE_SIZE == 33554432

\* TLC's integers are 32 bits wide, a usize is 64: a usize is kept as two
\* limbs, q * 2^16 + r with 0 <= r < 2^16.  A u32 is q < 2^16.
Limb == 2 ^ 16

Usize(n) == [q |-> n \div Limb, r |-> n % Limb]

\* x > y on two usize values.
UsizeGreater(x, y) == x.q > y.q \/ (x.q = y.q /\ x.r > y.r)

\* `x as u32`: the low 32 bits of a usize.  (The inputs below keep bit 31
\* of the result clear, so that it is an integer TLC can hold.)
AsU32(x) == (x.q % Limb) * Limb + x.r

\* Payload lengths handed to Blob::new_raw (a usize on a 64-bit target):
\* around the message limit, and 2^32, 2^32 + 5, 2^32 + 32 MiB + 1.
PayloadLens ==
    {Usize(0), Usize(1), Usize(MAX_BLOB_MESSAGE_SIZE), Usize(MAX_BLOB_MESSAGE_SIZE + 1),
     [q |-> Limb, r |-> 0], [q |-> Limb, r |-> 5], [q |-> Limb + 512, r |-> 1]}

\* Declared raw sizes handed to Blob::new_zlib (a u32).
RawSizes ==
    {0, 1000, MAX_BLOB_MESSAGE_SIZE, MAX_BLOB_MESSAGE_SIZE + 1, 2147483647}

VARIABLES
    file,               \* the bytes of the input file
    pc,                 \* "i_build", "m_build" or "ready"
    i_index,            \* IndexedReader.blob_index
    i_header,           \* IndexedReader.header_blob: <<>> or <<entry>>
    i_offset_to_index,  \* IndexedReader.offset_to_index
    i_cur,              \* build_index's current_offset (IndexedReader)
    m_state,            \* MmapBlobReader::from_file: "none", "building", "ok", "failed"
    m_index,            \* MmapBlobReader.blob_index
    m_header,           \* MmapBlobReader.header_blob
    m_file_size,        \* MmapBlobReader.file_size
    m_cur,              \* build_index's current_offset (MmapBlobReader)
    p_made,             \* a ParallelMmapBlobReader exists
    p_index,            \* ParallelMmapBlobReader.blob_index
    p_file_size,        \* ParallelMmapBlobReader.file_size
    res,                \* the last call and what it returned
    threads,            \* per thread: the read it is making on a shared view
    global_pool,        \* rayon's global thread pool has been built
    string_table,       \* a StringTable (blocks/string_table.rs)
    holders,            \* the live readers that hold the Arc<MmapData>
    mmap                \* the Arc<MmapData>: strong count and the MmapData

vars == <<file, pc, i_index, i_header, i_offset_to_index, i_cur,
          m_state, m_index, m_header, m_file_size, m_cur,
          p_made, p_index, p_file_size, res, threads, global_pool,
          string_table, holders, mmap>>

i_vars == <<i_index, i_header, i_offset_to_index, i_cur>>
m_vars == <<m_state, m_index, m_header, m_file_size, m_cur>>
p_vars == <<p_made, p_index, p_file_size>>
a_vars == <<holders, mmap>>
x_vars == <<threads, global_pool, string_table, a_vars>>

-----------------------------------------------------------------------------
(* Input files *)

RECURSIVE SeqsUpTo(_, _)
SeqsUpTo(S, n) ==
    IF n = 0 THEN {<<>>}
    ELSE LET shorter == SeqsUpTo(S, n - 1)
         IN  shorter \cup {Append(s, b) : s \in {t \in shorter : Len(t) = n - 1}, b \in S}

Files == SeqsUpTo(ByteValues, MaxFileLen)

\* u32::from_be_bytes of the four bytes at `offset` (0-based).
U32At(f, offset) ==
    f[offset + 1] * 16777216 + f[offset + 2] * 65536 + f[offset + 3] * 256 + f[offset + 4]

\* The bytes of f from offset (0-based), len of them.
Slice(f, offset, len) == SubSeq(f, offset + 1, offset + len)

-----------------------------------------------------------------------------
(* io/blob.rs *)

NoErr == [variant |-> "none", size |-> 0, max |-> 0]
InvalidFormat == [variant |-> "InvalidFormat", size |-> 0, max |-> 0]
IoUnexpectedEof == [variant |-> "Io", size |-> 0, max |-> 0]
HeaderTooLarge(size) ==
    [variant |-> "HeaderTooLarge", size |-> size, max |-> MAX_BLOB_HEADER_SIZE]
MessageTooLarge(size) ==
    [variant |-> "MessageTooLarge", size |-> size, max |-> MAX_BLOB_MESSAGE_SIZE]

\* Result<Option<Blob>> and Result<Blob>: kind is "None", "Some" or "Err".
OkNone == [kind |-> "None", blob |-> <<>>, err |-> NoErr]
OkSome(b) == [kind |-> "Some", blob |-> <<b>>, err |-> NoErr]
Err(e) == [kind |-> "Err", blob |-> <<>>, err |-> e]

\* A Bytes value: its length and, when it comes from a file, its content.
BytesOf(s) == [len |-> Usize(Len(s)), content |-> s]
BytesOfLen(n) == [len |-> n, content |-> <<>>]

BlobHeader_new(blob_type, datasize) ==
    [blob_type |-> blob_type, datasize |-> datasize]

BlobHeader_validate_size(header_size) ==
    IF header_size > MAX_BLOB_HEADER_SIZE
    THEN Err(HeaderTooLarge(header_size))
    ELSE OkNone

\* BlobData::raw_size: `data.len() as u32` for Raw, the declared size otherwise.
BlobData_raw_size(data) ==
    IF data.variant = "Raw" THEN AsU32(data.bytes.len) ELSE data.raw_size

BlobData_validate_size(data) ==
    LET size == BlobData_raw_size(data)
    IN  IF size > MAX_BLOB_MESSAGE_SIZE THEN Err(MessageTooLarge(size)) ELSE OkNone

Blob_new_raw(blob_type, data, offset) ==
    LET header == BlobHeader_new(blob_type, AsU32(data.len))
        blob_data == [variant |-> "Raw", bytes |-> data, raw_size |-> 0]
        v == BlobData_validate_size(blob_data)
    IN  IF v.kind = "Err" THEN v
        ELSE OkSome([header |-> header, data |-> blob_data, offset |-> offset])

Blob_new_zlib(blob_type, compressed, raw_size, offset) ==
    LET header == BlobHeader_new(blob_type, AsU32(compressed.len))
        blob_data == [variant |-> "ZlibData", bytes |-> compressed, raw_size |-> raw_size]
        v == BlobData_validate_size(blob_data)
    IN  IF v.kind = "Err" THEN v
        ELSE OkSome([header |-> header, data |-> blob_data, offset |-> offset])

-----------------------------------------------------------------------------
(* The blob index, common to both readers *)

ElementCounts_default == [nodes |-> 0, ways |-> 0, relations |-> 0, changesets |-> 0]

BlobIndex(offset, size, blob_type) ==
    [offset |-> offset, size |-> size, blob_type |-> blob_type,
     id_range |-> <<>>, element_counts |-> ElementCounts_default]

\* A scan that takes the length prefix to be one byte long.
Advance_with_one_byte_prefix(current_offset, blob_size) == current_offset + 1 + blob_size

\* A scan that forgets the four bytes of the length prefix.
Advance_without_prefix(current_offset, blob_size) == current_offset + blob_size

\* build_index: `current_offset += 4 + blob_size as u64`.
Advance(current_offset, blob_size) == current_offset + 4 + blob_size

\* build_index: the header slot after an entry was made.
Promote(header_blob, entry) ==
    IF entry.blob_type = "OSMHeader" THEN <<entry>> ELSE header_blob

NoCall == [op |-> "none", reader |-> "-", arg |-> 0, out |-> OkNone, events |-> <<>>]

-----------------------------------------------------------------------------
(* blocks/string_table.rs *)

\* A table that starts with no entry at all.
StringTable_new_unreserved == [s |-> <<>>]

\* StringTable::new (and default): the empty string at index 0.
StringTable_new == [s |-> <<"">>]

\* add_string that returns the length after the push.
add_string_returns_len(st, string) ==
    [st |-> [st EXCEPT !.s = Append(@, string)], out |-> Len(st.s) + 1]

\* add_string: the table after the call and the index returned.
add_string(st, string) ==
    LET pushed == [st EXCEPT !.s = Append(@, string)]
    IN  [st |-> pushed, out |-> Len(pushed.s) - 1]

\* get_string: None is <<>>, Some(s) is <<s>>.
get_string(st, index) ==
    IF index < Len(st.s) THEN <<st.s[index + 1]>> ELSE <<>>

\* get_string_or_empty: "" at index 0 and past the end.
get_string_or_empty(st, index) ==
    IF index = 0 \/ index >= Len(st.s) THEN "" ELSE st.s[index + 1]

StringTable_len(st) == Len(st.s)

StringTable_is_empty(st) == Len(st.s) <= 1

-----------------------------------------------------------------------------
(* The shared mapping: MmapData behind an Arc (io/mmap_blob.rs) *)

\* Before from_file there is no mapping.
NoMmap == [strong |-> 0, data |-> "none", len |-> 0, munmaps |-> 0]

\* MmapData::new: a null pointer for an empty file, else a region of len
\* bytes (mmap, or a boxed copy of the file).
MmapData_new(f) ==
    [data |-> IF Len(f) = 0 THEN "null" ELSE "mapped", len |-> Len(f)]

\* Drop for MmapData: munmap (or free the box) unless the pointer is null.
MmapData_drop(m) ==
    IF m.data # "null" /\ m.len > 0
    THEN [m EXCEPT !.data = "released", !.munmaps = @ + 1]
    ELSE m

\* Arc::new
Arc_new(value) ==
    [strong |-> 1, data |-> value.data, len |-> value.len, munmaps |-> 0]

\* A copy of the handle that takes no count.
Arc_clone_uncounted(arc) == arc

\* Arc::clone: one more strong reference to the same MmapData.
Arc_clone(arc) == [arc EXCEPT !.strong = @ + 1]

\* Dropping a value that holds the Arc: the MmapData is dropped with the
\* last strong reference.
Arc_drop(arc) ==
    LET released == [arc EXCEPT !.strong = @ - 1]
    IN  IF released.strong = 0 THEN MmapData_drop(released) ELSE released

\* Holders of the Arc: 0 is the MmapBlobReader, k >= 1 a
\* ParallelMmapBlobReader.
MmapBlobReader == 0

MaxParallelReaders == 2

ParallelReaders == 1..MaxParallelReaders

\* The name the next ParallelMmapBlobReader gets.
NewHolder(live) == CHOOSE h \in ParallelReaders : h \notin live

-----------------------------------------------------------------------------
(* IndexedReader (io/indexed_reader.rs) *)

\* read_blob_header_at_offset: Ok(None) when read_exact of the four length
\* bytes hits the end of the input, else the stubbed header and the length.
\* A header read that zero-fills a short prefix instead of reporting the
\* end of the file.
I_read_blob_header_zero_padded(f, offset) ==
    IF offset > Len(f)
    THEN [kind |-> "None", blob_type |-> "OSMData", blob_size |-> 0]
    ELSE IF offset + 4 > Len(f)
    THEN [kind |-> "Some", blob_type |-> "OSMData", blob_size |-> 0]
    ELSE [kind |-> "Some", blob_type |-> "OSMData", blob_size |-> U32At(f, offset)]

I_read_blob_header_at_offset(f, offset) ==
    IF offset + 4 > Len(f)
    THEN [kind |-> "None", blob_type |-> "OSMData", blob_size |-> 0]
    ELSE [kind |-> "Some", blob_type |-> "OSMData", blob_size |-> U32At(f, offset)]

\* One iteration of build_index's loop.
I_BuildStep ==
    /\ pc = "i_build"
    /\ LET r == I_read_blob_header_at_offset(file, i_cur)
       IN  IF r.kind = "Some"
           THEN LET index_entry == BlobIndex(i_cur, r.blob_size, r.blob_type)
                IN  /\ i_header' = Promote(i_header, index_entry)
                    /\ i_offset_to_index' =
                           (i_cur :> Len(i_index)) @@ i_offset_to_index
                    /\ i_index' = Append(i_index, index_entry)
                    /\ i_cur' = Advance(i_cur, r.blob_size)
                    /\ UNCHANGED <<pc, m_vars, a_vars>>
           ELSE \* Ok(None) => break; build_index and new return Ok.
                \* MmapBlobReader::from_file then starts on the same bytes.
                /\ pc' = "m_build"
                /\ m_state' = "building"
                /\ m_file_size' = Len(file)
                /\ m_index' = <<>>
                /\ m_header' = <<>>
                /\ m_cur' = 0
                /\ holders' = {MmapBlobReader}
                /\ mmap' = Arc_new(MmapData_new(file))
                /\ UNCHANGED i_vars
    /\ UNCHANGED <<file, threads, global_pool, string_table, p_vars, res>>

\* read_blob_at_offset: the result and, in order, the buffers it allocates
\* and the checks it makes on the way ("alloc" of n bytes, "read_body",
\* "validate_size").
I_read_blob_at_offset(f, offset) ==
    IF offset + 4 > Len(f)
    THEN [out |-> OkNone, events |-> <<>>]
    ELSE LET blob_size == U32At(f, offset)
             alloc == [ev |-> "alloc", n |-> blob_size]
             read == [ev |-> "read_body", n |-> blob_size]
             check == [ev |-> "validate_size", n |-> blob_size]
         IN  IF offset + 4 + blob_size > Len(f)
             THEN [out |-> Err(IoUnexpectedEof), events |-> <<alloc, read>>]
             ELSE [out |-> Blob_new_raw("OSMData",
                                        BytesOf(Slice(f, offset + 4, blob_size)),
                                        offset),
                   events |-> <<alloc, read, check>>]

\* A lookup that reports a missing entry as Ok(None).
IndexOutOfRange_as_none == OkNone

\* What read_blob_by_index returns when `index` is not in the index.
IndexOutOfRange == Err(InvalidFormat)

I_read_blob_by_index(f, blob_index, index) ==
    IF index >= Len(blob_index)
    THEN [out |-> IndexOutOfRange, events |-> <<>>]
    ELSE I_read_blob_at_offset(f, blob_index[index + 1].offset)

\* statistics(), for both readers: the counts by type of the index entries.
Statistics(blob_index) ==
    LET count(t) == Cardinality({i \in 1..Len(blob_index) : blob_index[i].blob_type = t})
    IN  [total_blobs |-> Len(blob_index),
         header_blobs |-> count("OSMHeader"),
         data_blobs |-> count("OSMData"),
         unknown_blobs |-> Len(blob_index) - count("OSMHeader") - count("OSMData")]

-----------------------------------------------------------------------------
(* MmapBlobReader and ParallelMmapBlobReader (io/mmap_blob.rs) *)

\* MmapData::get_slice's bounds check (the mapping is as long as the file).
Mmap_in_bounds(f, offset, len) == offset + len <= Len(f)

M_read_blob_header_at_offset(f, file_size, offset) ==
    IF offset + 4 > file_size
    THEN [kind |-> "None", blob_type |-> "OSMData", blob_size |-> 0]
    ELSE IF ~Mmap_in_bounds(f, offset, 4)
    THEN [kind |-> "Err", blob_type |-> "OSMData", blob_size |-> 0]
    ELSE LET blob_size == U32At(f, offset)
         IN  IF offset + 4 + blob_size > file_size
             THEN [kind |-> "Err", blob_type |-> "OSMData", blob_size |-> 0]
             ELSE [kind |-> "Some", blob_type |-> "OSMData", blob_size |-> blob_size]

\* One test of build_index's `while` condition and, when it holds, one
\* iteration of the loop.  An error leaves from_file with no reader.
M_BuildStep ==
    /\ pc = "m_build"
    /\ IF m_cur >= m_file_size
       THEN /\ pc' = "ready"
            /\ m_state' = "ok"
            /\ UNCHANGED <<m_index, m_header, m_file_size, m_cur, a_vars>>
       ELSE LET r == M_read_blob_header_at_offset(file, m_file_size, m_cur)
            IN  CASE r.kind = "Some" ->
                     LET index_entry == BlobIndex(m_cur, r.blob_size, r.blob_type)
                     IN  /\ m_header' = Promote(m_header, index_entry)
                         /\ m_index' = Append(m_index, index_entry)
                         /\ m_cur' = Advance(m_cur, r.blob_size)
                         /\ UNCHANGED <<pc, m_state, m_file_size, a_vars>>
                  [] r.kind = "None" ->
                     /\ pc' = "ready"
                     /\ m_state' = "ok"
                     /\ UNCHANGED <<m_index, m_header, m_file_size, m_cur, a_vars>>
                  [] OTHER ->
                     /\ pc' = "ready"
                     /\ m_state' = "failed"
                     /\ m_index' = <<>>
                     /\ m_header' = <<>>
                     \* `?` drops the reader under construction.
                     /\ holders' = {}
                     /\ mmap' = Arc_drop(mmap)
                     /\ UNCHANGED <<m_file_size, m_cur>>
    /\ UNCHANGED <<file, threads, global_pool, string_table, i_vars, p_vars, res>>

M_read_blob_at_offset(f, file_size, offset) ==
    IF offset + 4 > file_size
    THEN [out |-> OkNone, events |-> <<>>]
    ELSE IF ~Mmap_in_bounds(f, offset, 4)
    THEN [out |-> Err(InvalidFormat), events |-> <<>>]
    ELSE LET blob_size == U32At(f, offset)
             alloc == [ev |-> "alloc", n |-> blob_size]
             check == [ev |-> "validate_size", n |-> blob_size]
         IN  IF offset + 4 + blob_size > file_size
             THEN [out |-> Err(InvalidFormat), events |-> <<>>]
             ELSE IF ~Mmap_in_bounds(f, offset + 4, blob_size)
             THEN [out |-> Err(InvalidFormat), events |-> <<>>]
             ELSE [out |-> Blob_new_raw("OSMData",
                                        BytesOf(Slice(f, offset + 4, blob_size)),
                                        offset),
                   events |-> <<alloc, check>>]

M_read_blob_by_index(f, file_size, blob_index, index) ==
    IF index >= Len(blob_index)
    THEN [out |-> IndexOutOfRange, events |-> <<>>]
    ELSE M_read_blob_at_offset(f, file_size, blob_index[index + 1].offset)

\* ParallelMmapBlobReader::from_reader
FromReader ==
    /\ pc = "ready"
    /\ m_state = "ok"
    /\ ~p_made
    /\ p_made' = TRUE
    /\ p_index' = m_index
    /\ p_file_size' = m_file_size
    /\ holders' = holders \cup {NewHolder(holders)}
    /\ mmap' = Arc_clone(mmap)
    /\ UNCHANGED <<file, threads, global_pool, string_table, pc, i_vars, m_vars, res>>

\* A read that reports a frame reaching past the end of the mapping as
\* Ok(None) instead of an error.
P_read_blob_at_offset_past_end_as_none(f, file_size, offset) ==
    LET r == M_read_blob_at_offset(f, file_size, offset)
    IN  IF r.out.kind = "Err" THEN [out |-> OkNone, events |-> <<>>] ELSE r

\* ParallelMmapBlobReader::read_blob_at_offset: no check of the declared
\* size against file_size; get_bytes' bounds check stands in for it.
P_read_blob_at_offset(f, file_size, offset) ==
    IF offset + 4 > file_size
    THEN [out |-> OkNone, events |-> <<>>]
    ELSE IF ~Mmap_in_bounds(f, offset, 4)
    THEN [out |-> Err(InvalidFormat), events |-> <<>>]
    ELSE LET blob_size == U32At(f, offset)
             alloc == [ev |-> "alloc", n |-> blob_size]
             check == [ev |-> "validate_size", n |-> blob_size]
         IN  IF ~Mmap_in_bounds(f, offset + 4, blob_size)
             THEN [out |-> Err(InvalidFormat), events |-> <<>>]
             ELSE [out |-> Blob_new_raw("OSMData",
                                        BytesOf(Slice(f, offset + 4, blob_size)),
                                        offset),
                   events |-> <<alloc, check>>]

P_read_blob_by_index(f, file_size, blob_index, index) ==
    IF index >= Len(blob_index)
    THEN [out |-> IndexOutOfRange, events |-> <<>>]
    ELSE P_read_blob_at_offset(f, file_size, blob_index[index + 1].offset)

-----------------------------------------------------------------------------
(* MmapData::get_slice and MmapBlobReader::get_raw_slice, over every usize *)

\* A 64-bit usize as four 16-bit limbs, the most significant first.
U64(n) == <<0, 0, n \div Limb, n % Limb>>
USIZE_MAX == <<Limb - 1, Limb - 1, Limb - 1, Limb - 1>>

\* x + y with the carry out of bit 63: the five limbs of the 65-bit sum.
AddWithCarry(x, y) ==
    LET s4 == x[4] + y[4]
        s3 == x[3] + y[3] + (s4 \div Limb)
        s2 == x[2] + y[2] + (s3 \div Limb)
        s1 == x[1] + y[1] + (s2 \div Limb)
    IN  <<s1 \div Limb, s1 % Limb, s2 % Limb, s3 % Limb, s4 % Limb>>

\* usize::wrapping_add: the carry is dropped.
wrapping_add(x, y) == Tail(AddWithCarry(x, y))

\* usize::saturating_add: usize::MAX when the sum does not fit.
saturating_add(x, y) ==
    LET s == AddWithCarry(x, y)
    IN  IF s[1] # 0 THEN USIZE_MAX ELSE Tail(s)

\* x > y on two usize values.
U64Greater(x, y) ==
    \E i \in 1..4 : x[i] > y[i] /\ \A j \in 1..(i - 1) : x[j] = y[j]

\* The slice a call returned: where it starts, how long it is, its bytes.
OkSlice(offset, len, content) ==
    [kind |-> "Slice", offset |-> offset, len |-> len, content |-> content, err |-> NoErr]
ErrSlice(e) ==
    [kind |-> "Err", offset |-> U64(0), len |-> U64(0), content |-> <<>>, err |-> e]

\* What a slice that leaves the mapping can show: bytes that are not the
\* file's (the first of them at most; a slice may be far longer).
WildBytes == {<<>>} \cup {<<b>> : b \in ByteValues}

\* What std::slice::from_raw_parts(data.add(offset), len) can show: the
\* bytes of the mapping when the range lies inside it, anything otherwise.
from_raw_parts(f, offset, len) ==
    IF /\ \A i \in 1..3 : offset[i] = 0 /\ len[i] = 0
       /\ offset[4] + len[4] <= Len(f)
    THEN {Slice(f, offset[4], len[4])}
    ELSE WildBytes

\* MmapData::get_slice on a mapping of the whole file: the outcomes, each
\* with the dereferences made ("deref" of len bytes at offset).  The data
\* pointer is null exactly when the file is empty.
MmapData_get_slice(f, offset, len) ==
    IF U64Greater(saturating_add(offset, len), U64(Len(f)))
    THEN {[out |-> ErrSlice(InvalidFormat), events |-> <<>>]}
    ELSE IF Len(f) = 0
    THEN {[out |-> OkSlice(offset, U64(0), <<>>), events |-> <<>>]}
    ELSE {[out |-> OkSlice(offset, len, content),
           events |-> <<[ev |-> "deref", at |-> offset, n |-> len]>>] :
              content \in from_raw_parts(f, offset, len)}

\* MmapBlobReader::get_raw_slice
M_get_raw_slice(f, offset, len) == MmapData_get_slice(f, offset, len)

-----------------------------------------------------------------------------
(* Threads reading through shared views of one mapping *)

\* The threads that read concurrently.
Threads == {"t1", "t2"}

\* The views a thread can hold: the MmapBlobReader by reference, or its own
\* clone of the ParallelMmapBlobReader (clone copies the two Arcs and
\* file_size, so every clone reads p_index and p_file_size).
Views == {"MmapBlobReader", "ParallelMmapBlobReader"}

Idle ==
    [pc |-> "idle", view |-> "-", op |-> "none", arg |-> 0,
     offset |-> 0, blob_size |-> 0, out |-> OkNone]

-----------------------------------------------------------------------------
(* ElementFilter and the filtered blob iterators                           *)
(* (io/indexed_reader.rs, io/mmap_blob.rs)                                 *)

ElementFilter_default ==
    [include_nodes |-> TRUE, include_ways |-> TRUE, include_relations |-> TRUE,
     include_changesets |-> FALSE, id_ranges |-> <<>>, tag_filters |-> <<>>,
     resolve_dependencies |-> FALSE]

ElementFilter_all == ElementFilter_default

ElementFilter_nodes_only ==
    [ElementFilter_default EXCEPT !.include_nodes = TRUE, !.include_ways = FALSE,
                                  !.include_relations = FALSE,
                                  !.include_changesets = FALSE]

ElementFilter_ways_only(resolve_dependencies) ==
    [ElementFilter_default EXCEPT !.include_nodes = resolve_dependencies,
                                  !.include_ways = TRUE,
                                  !.include_relations = FALSE,
                                  !.include_changesets = FALSE,
                                  !.resolve_dependencies = resolve_dependencies]

with_id_range(filter, min_id, max_id) ==
    [filter EXCEPT !.id_ranges = Append(@, <<min_id, max_id>>)]

\* The filters callers pass.
Filters ==
    {ElementFilter_all, ElementFilter_nodes_only, ElementFilter_ways_only(FALSE),
     ElementFilter_ways_only(TRUE), with_id_range(ElementFilter_all, 2, 2)}

\* An iterator that yields a blob when nodes are not asked for.
should_include_unless_nodes(filter, blob_index) == ~filter.include_nodes

\* FilteredBlobIterator::next and MmapFilteredBlobIterator::next: the
\* `should_include` of an index entry.
should_include(filter, blob_index) ==
    CASE blob_index.blob_type = "OSMHeader" -> TRUE
      [] blob_index.blob_type = "OSMData" ->
             \/ (filter.include_nodes /\ blob_index.element_counts.nodes > 0)
             \/ (filter.include_ways /\ blob_index.element_counts.ways > 0)
             \/ (filter.include_relations /\ blob_index.element_counts.relations > 0)
             \/ (filter.include_changesets /\ blob_index.element_counts.changesets > 0)
      [] OTHER -> FALSE

\* self.reader.read_blob_by_index of the reader the iterator borrows.
ReadByIndex(reader, f, blob_index, index) ==
    IF reader = "IndexedReader"
    THEN I_read_blob_by_index(f, blob_index, index)
    ELSE M_read_blob_by_index(f, Len(f), blob_index, index)

\* What the iterator looked at ("consider") and what it read ("read").
Event(ev, index, blob_index) ==
    [ev |-> ev, index |-> index, offset |-> blob_index[index + 1].offset]

\* next(): the item (<<>> for None, else <<result>>) and the iterator after.
RECURSIVE FilteredBlobIterator_next(_, _, _, _, _)
FilteredBlobIterator_next(reader, f, blob_index, filter, it) ==
    IF it.current_index >= Len(blob_index)
    THEN [item |-> <<>>, it |-> it]
    ELSE LET entry == blob_index[it.current_index + 1]
             considered ==
                 [current_index |-> it.current_index + 1,
                  events |-> Append(it.events,
                                    Event("consider", it.current_index, blob_index))]
         IN  IF should_include(filter, entry)
             THEN LET r == ReadByIndex(reader, f, blob_index,
                                       considered.current_index - 1)
                      read == [considered EXCEPT !.events =
                                   Append(@, Event("read", it.current_index, blob_index))]
                  IN  IF r.out.kind = "None"
                      THEN FilteredBlobIterator_next(reader, f, blob_index, filter, read)
                      ELSE [item |-> <<r.out>>, it |-> read]
             ELSE FilteredBlobIterator_next(reader, f, blob_index, filter, considered)

\* stream_filtered: the iterator it returns.
stream_filtered == [current_index |-> 0, events |-> <<>>]

\* `for blob_result in reader.stream_filtered(&filter)`: next() until None.
RECURSIVE Drain(_, _, _, _, _, _)
Drain(reader, f, blob_index, filter, it, items) ==
    LET n == FilteredBlobIterator_next(reader, f, blob_index, filter, it)
    IN  IF n.item = <<>>
        THEN [out |-> [kind |-> "Items", items |-> items], events |-> n.it.events]
        ELSE Drain(reader, f, blob_index, filter, n.it, Append(items, n.item[1]))

-----------------------------------------------------------------------------
(* Reader (io/reader.rs), over the IndexedReader it owns *)

ProcessingStats_default ==
    [blobs_processed |-> 0, elements_processed |-> 0, nodes_processed |-> 0,
     ways_processed |-> 0, relations_processed |-> 0, changesets_processed |-> 0,
     errors_encountered |-> 0]

\* The error a closure returns (any BlobError of the caller's choosing).
ClosureError == [variant |-> "closure", size |-> 0, max |-> 0]

\* Result<ProcessingStats>
OkStats(stats) == [kind |-> "Stats", stats |-> stats, err |-> NoErr]
ErrStats(e) == [kind |-> "Err", stats |-> ProcessingStats_default, err |-> e]

\* The closures callers pass: one that always returns Ok(()), and one that
\* returns an error on its first invocation.
Closures == {[fails_on |-> 0], [fails_on |-> 1]}

\* extract_elements_from_blob: the placeholder returns Ok(Vec::new()).
extract_elements_from_blob(blob) == <<>>

extract_filtered_elements_from_blob(blob, filter) == extract_elements_from_blob(blob)

\* A loop body that counts an element under its type only.
CountElement_by_type_only(stats, element) ==
    CASE element.type = "Node" -> [stats EXCEPT !.nodes_processed = @ + 1]
      [] element.type = "Way" -> [stats EXCEPT !.ways_processed = @ + 1]
      [] element.type = "Relation" -> [stats EXCEPT !.relations_processed = @ + 1]
      [] OTHER -> [stats EXCEPT !.changesets_processed = @ + 1]

\* The `match &element` of the loop body and `elements_processed += 1`.
CountElement(stats, element) ==
    LET counted ==
            CASE element.type = "Node" -> [stats EXCEPT !.nodes_processed = @ + 1]
              [] element.type = "Way" -> [stats EXCEPT !.ways_processed = @ + 1]
              [] element.type = "Relation" -> [stats EXCEPT !.relations_processed = @ + 1]
              [] OTHER -> [stats EXCEPT !.changesets_processed = @ + 1]
    IN  [counted EXCEPT !.elements_processed = @ + 1]

\* `for element in elements { .. processor(element)? }`
RECURSIVE ProcessElements(_, _, _)
ProcessElements(elements, processor, acc) ==
    IF elements = <<>> THEN acc
    ELSE LET element == Head(elements)
             after == [stats |-> CountElement(acc.stats, element),
                       events |-> Append(acc.events,
                                         [ev |-> "invoke", element |-> element]),
                       invoked |-> acc.invoked + 1,
                       failed |-> processor.fails_on = acc.invoked + 1]
         IN  IF after.failed THEN after
             ELSE ProcessElements(Tail(elements), processor, after)

\* A loop that walks the index from its last entry to its first.
blob_indices_reversed(blob_count) == [i \in 1..blob_count |-> blob_count - i]

\* `(0..self.indexed_reader.blob_count()).collect()`
blob_indices(blob_count) == [i \in 1..blob_count |-> i - 1]

\* A loop that skips a failed blob without counting it.
BlobFailed_uncounted(stats) == stats

\* `Err(e) => { stats.errors_encountered += 1; continue; }`
BlobFailed(stats) == [stats EXCEPT !.errors_encountered = @ + 1]

\* `for blob_index in blob_indices { .. }` of for_each (filter = <<>>) and of
\* for_each_filtered (filter = <<the filter>>).
RECURSIVE ForEachLoop(_, _, _, _, _, _)
ForEachLoop(f, index, todo, filter, processor, acc) ==
    IF todo = <<>>
    THEN [out |-> OkStats(acc.stats), events |-> acc.events]
    ELSE LET blob_index == Head(todo)
             r == I_read_blob_by_index(f, index, blob_index)
             read == [acc EXCEPT !.events = Append(@, Event("read", blob_index, index))]
         IN  CASE r.out.kind = "Err" ->
                      ForEachLoop(f, index, Tail(todo), filter, processor,
                                  [read EXCEPT !.stats = BlobFailed(@)])
               [] r.out.kind = "None" ->
                      ForEachLoop(f, index, Tail(todo), filter, processor, read)
               [] OTHER ->
                      LET blob == r.out.blob[1]
                          elements ==
                              IF filter = <<>>
                              THEN extract_elements_from_blob(blob)
                              ELSE extract_filtered_elements_from_blob(blob, filter[1])
                          after == ProcessElements(elements, processor,
                                       [read EXCEPT !.stats.blobs_processed = @ + 1])
                      IN  IF after.failed
                          THEN [out |-> ErrStats(ClosureError), events |-> after.events]
                          ELSE ForEachLoop(f, index, Tail(todo), filter, processor, after)

ForEachStart ==
    [stats |-> ProcessingStats_default, events |-> <<>>, invoked |-> 0, failed |-> FALSE]

Reader_for_each(f, index, processor) ==
    ForEachLoop(f, index, blob_indices(Len(index)), <<>>, processor, ForEachStart)

Reader_for_each_filtered(f, index, filter, processor) ==
    ForEachLoop(f, index, blob_indices(Len(index)), <<filter>>, processor, ForEachStart)

\* The elements a closure was handed, in order.
Handed(events) ==
    LET invokes == SelectSeq(events, LAMBDA e : e.ev = "invoke")
    IN  [i \in 1..Len(invokes) |-> invokes[i].element]

\* collect_filtered: for_each_filtered with a closure that pushes and
\* returns Ok(()).
Reader_collect_filtered(f, index, filter) ==
    LET r == Reader_for_each_filtered(f, index, filter, [fails_on |-> 0])
    IN  IF r.out.kind = "Err"
        THEN [out |-> [kind |-> "Err", elements |-> <<>>,
                       stats |-> ProcessingStats_default, err |-> r.out.err],
              events |-> r.events]
        ELSE [out |-> [kind |-> "Collected", elements |-> Handed(r.events),
                       stats |-> r.out.stats, err |-> NoErr],
              events |-> r.events]

\* collect_all_elements: for_each with a closure that pushes.
collect_all_elements(f, index) ==
    LET r == Reader_for_each(f, index, [fails_on |-> 0])
    IN  [err |-> IF r.out.kind = "Err" THEN <<r.out.err>> ELSE <<>>,
         elements |-> Handed(r.events)]

\* ParallelConfig.num_threads: None (<<>>) or Some(n).
Configs == {[num_threads |-> <<>>], [num_threads |-> <<2>>]}

\* The map and reduce functions passed: the element's id, and `+`.
map_fn(element) == element.id
reduce_fn(acc, mapped) == acc + mapped

\* `for element in all_elements { result = reduce_fn(result, map_fn(element)) }`
RECURSIVE Fold(_, _)
Fold(result, elements) ==
    IF elements = <<>> THEN result
    ELSE Fold(reduce_fn(result, map_fn(Head(elements))), Tail(elements))

\* Result<T>
OkValue(v) == [kind |-> "Value", value |-> v, err |-> NoErr]
ErrValue(e) == [kind |-> "Err", value |-> 0, err |-> e]

\* par_map_reduce: the result, and whether rayon's global pool is built
\* afterwards.  ThreadPoolBuilder::build_global fails once the process has a
\* global pool, and the failure is returned as InvalidFormat.
Reader_par_map_reduce(f, index, config, identity, pool_built) ==
    IF config.num_threads # <<>> /\ pool_built
    THEN [out |-> ErrValue(InvalidFormat), pool_built |-> pool_built]
    ELSE LET all_elements == collect_all_elements(f, index)
             built == pool_built \/ config.num_threads # <<>>
         IN  IF all_elements.err # <<>>
             THEN [out |-> ErrValue(all_elements.err[1]), pool_built |-> built]
             ELSE [out |-> OkValue(Fold(identity, all_elements.elements)),
                   pool_built |-> built]

-----------------------------------------------------------------------------
(* read_blob_at_offset over every u64 offset *)

\* A call that panicked instead of returning.
Panicked == [kind |-> "Panic", blob |-> <<>>, err |-> NoErr]

\* `x + y` on u64 as the build compiles it: with overflow checks (the dev
\* profile) a sum that does not fit panics, without them (the release
\* profile) it wraps.
u64_add(x, y, overflow_checks) ==
    LET s == AddWithCarry(x, y)
    IN  [panic |-> overflow_checks /\ s[1] # 0, value |-> Tail(s)]

\* read_blob_at_offset of MmapBlobReader and of ParallelMmapBlobReader for
\* an offset given as a u64: the first test `offset + 4 > self.file_size`
\* and the get_slice of the length prefix; an offset that passes both lies
\* inside the file and the rest is the read already described.
read_blob_at_u64_offset(reader, f, file_size, offset, overflow_checks) ==
    LET end_of_prefix == u64_add(offset, U64(4), overflow_checks)
    IN  IF end_of_prefix.panic
        THEN [out |-> Panicked, events |-> <<>>]
        ELSE IF U64Greater(end_of_prefix.value, U64(file_size))
        THEN [out |-> OkNone, events |-> <<>>]
        ELSE LET size_bytes == CHOOSE g \in MmapData_get_slice(f, offset, U64(4)) : TRUE
             IN  IF size_bytes.out.kind = "Err"
                 THEN [out |-> Err(size_bytes.out.err), events |-> size_bytes.events]
                 ELSE LET r == IF reader = "MmapBlobReader"
                               THEN M_read_blob_at_offset(f, file_size, offset[4])
                               ELSE P_read_blob_at_offset(f, file_size, offset[4])
                      IN  [out |-> r.out, events |-> size_bytes.events \o r.events]

-----------------------------------------------------------------------------
(* Calls on the built readers *)

Readers == {"IndexedReader", "MmapBlobReader", "ParallelMmapBlobReader"}

Exists(reader) ==
    /\ pc = "ready"
    /\ (reader = "MmapBlobReader" => m_state = "ok")
    /\ (reader = "ParallelMmapBlobReader" => p_made)

\* Offsets asked for: every position of the file, its end and one past it.
Offsets == 0..(Len(file) + 1)

\* Indices asked for: every entry, blob_count() and one past it.
Indices == 0..(Len(i_index) + 1)

Call(op, reader, arg, r) ==
    [op |-> op, reader |-> reader, arg |-> arg, out |-> r.out, events |-> r.events]

ReadBlobAtOffset ==
    \E reader \in Readers, offset \in Offsets :
        /\ Exists(reader)
        /\ res = NoCall
        /\ res' = Call("read_blob_at_offset", reader, offset,
                       CASE reader = "IndexedReader" ->
                                I_read_blob_at_offset(file, offset)
                         [] reader = "MmapBlobReader" ->
                                M_read_blob_at_offset(file, m_file_size, offset)
                         [] OTHER ->
                                P_read_blob_at_offset(file, p_file_size, offset))
        /\ UNCHANGED <<file, x_vars, pc, i_vars, m_vars, p_vars>>

ReadBlobByIndex ==
    \E reader \in Readers, index \in Indices :
        /\ Exists(reader)
        /\ res = NoCall
        /\ res' = Call("read_blob_by_index", reader, index,
                       CASE reader = "IndexedReader" ->
                                I_read_blob_by_index(file, i_index, index)
                         [] reader = "MmapBlobReader" ->
                                M_read_blob_by_index(file, m_file_size, m_index, index)
                         [] OTHER ->
                                P_read_blob_by_index(file, p_file_size, p_index, index))
        /\ UNCHANGED <<file, x_vars, pc, i_vars, m_vars, p_vars>>

\* The caller drops the value a call returned.
Drop ==
    /\ res # NoCall
    /\ pc = "ready"
    /\ res' = NoCall
    /\ UNCHANGED <<file, x_vars, pc, i_vars, m_vars, p_vars>>

Init ==
    /\ file \in Files
    /\ pc = "i_build"
    /\ i_index = <<>>
    /\ i_header = <<>>
    /\ i_offset_to_index = <<>>
    /\ i_cur = 0
    /\ m_state = "none"
    /\ m_index = <<>>
    /\ m_header = <<>>
    /\ m_file_size = 0
    /\ m_cur = 0
    /\ p_made = FALSE
    /\ p_index = <<>>
    /\ p_file_size = 0
    /\ res = NoCall
    /\ threads = [t \in Threads |-> Idle]
    /\ global_pool = FALSE
    /\ string_table = StringTable_new
    /\ holders = {}
    /\ mmap = NoMmap

Next ==
    \/ I_BuildStep
    \/ M_BuildStep
    \/ FromReader
    \/ ReadBlobAtOffset
    \/ ReadBlobByIndex
    \/ Drop

Spec == Init /\ [][Next]_vars

-----------------------------------------------------------------------------
(* The blob constructors on their own: Blob::new_raw and Blob::new_zlib     *)
(* applied to payloads of every length of PayloadLens.                      *)

BlobTypes == {"OSMHeader", "OSMData", "Unknown"}
BlobOffsets == {0, 1024, 2048}

\* Blob::new_raw on a payload of `len` bytes.
NewRaw ==
    \E blob_type \in BlobTypes, len \in PayloadLens, offset \in BlobOffsets :
        /\ pc = "blob"
        /\ res = NoCall
        /\ res' = [op |-> "new_raw", reader |-> blob_type, arg |-> len,
                   out |-> Blob_new_raw(blob_type, BytesOfLen(len), offset),
                   events |-> <<>>]
        /\ UNCHANGED <<file, x_vars, pc, i_vars, m_vars, p_vars>>

\* Blob::new_zlib on `len` compressed bytes declaring `raw_size`.
NewZlib ==
    \E blob_type \in BlobTypes, len \in PayloadLens, raw_size \in RawSizes,
       offset \in BlobOffsets :
        /\ pc = "blob"
        /\ res = NoCall
        /\ res' = [op |-> "new_zlib", reader |-> blob_type,
                   arg |-> [len |-> len, raw_size |-> raw_size],
                   out |-> Blob_new_zlib(blob_type, BytesOfLen(len), raw_size, offset),
                   events |-> <<>>]
        /\ UNCHANGED <<file, x_vars, pc, i_vars, m_vars, p_vars>>

DropBlob ==
    /\ res # NoCall
    /\ pc = "blob"
    /\ res' = NoCall
    /\ UNCHANGED <<file, x_vars, pc, i_vars, m_vars, p_vars>>

InitBlob ==
    /\ file = <<>>
    /\ pc = "blob"
    /\ i_index = <<>>
    /\ i_header = <<>>
    /\ i_offset_to_index = <<>>
    /\ i_cur = 0
    /\ m_state = "none"
    /\ m_index = <<>>
    /\ m_header = <<>>
    /\ m_file_size = 0
    /\ m_cur = 0
    /\ p_made = FALSE
    /\ p_index = <<>>
    /\ p_file_size = 0
    /\ res = NoCall
    /\ threads = [t \in Threads |-> Idle]
    /\ global_pool = FALSE
    /\ string_table = StringTable_new
    /\ holders = {}
    /\ mmap = NoMmap

NextBlob ==
    \/ NewRaw
    \/ NewZlib
    \/ DropBlob

SpecBlob == InitBlob /\ [][NextBlob]_vars

-----------------------------------------------------------------------------
(* get_raw_slice on a built MmapBlobReader, for every usize offset and len *)

\* Longest input file of the get_raw_slice specification.
MaxSliceFileLen == 5

\* 2^16, 2^32, 2^63 and usize::MAX.
HugeArgs == {<<0, 0, 1, 0>>, <<0, 1, 0, 0>>, <<Limb \div 2, 0, 0, 0>>, USIZE_MAX}

\* Offsets and lengths asked for: every position of the file, its end, one
\* past it, and the huge values, whose sums overflow a usize.
SliceArgs == {U64(n) : n \in 0..(Len(file) + 1)} \cup HugeArgs

GetRawSlice ==
    /\ Exists("MmapBlobReader")
    /\ res = NoCall
    /\ \E offset \in SliceArgs, len \in SliceArgs :
        \E r \in M_get_raw_slice(file, offset, len) :
            /\ res' = [op |-> "get_raw_slice", reader |-> "MmapBlobReader",
                       arg |-> [offset |-> offset, len |-> len],
                       out |-> r.out, events |-> r.events]
            /\ UNCHANGED <<file, x_vars, pc, i_vars, m_vars, p_vars>>

InitSlice == Init /\ Len(file) <= MaxSliceFileLen

NextSlice ==
    \/ I_BuildStep
    \/ M_BuildStep
    \/ GetRawSlice
    \/ Drop

SpecSlice == InitSlice /\ [][NextSlice]_vars

-----------------------------------------------------------------------------
(* Concurrent reads: each thread runs read_blob_by_index or               *)
(* read_blob_at_offset of its view one access to the mapping at a time.   *)

\* Longest input file of the concurrent specification.
MaxThreadFileLen == 5

ReadOps == {"read_blob_at_offset", "read_blob_by_index"}

ViewIndex(view) == IF view = "MmapBlobReader" THEN m_index ELSE p_index
ViewFileSize(view) == IF view = "MmapBlobReader" THEN m_file_size ELSE p_file_size

ThreadArgs(op) ==
    IF op = "read_blob_at_offset" THEN 0..(Len(file) + 1) ELSE 0..(Len(m_index) + 1)

\* A thread that takes the length another thread has decoded.
SizeSeen_of_other(t) ==
    LET u == CHOOSE v \in Threads : v # t IN threads[u].blob_size

\* The local `blob_size` of the call thread t is making.
SizeSeen(t) == threads[t].blob_size

\* The call is entered; read_blob_by_index looks its entry up in the view's
\* index and goes on as read_blob_at_offset of the entry's offset.
T_Call ==
    \E t \in Threads, view \in Views, op \in ReadOps :
        \E arg \in ThreadArgs(op) :
            /\ Exists(view)
            /\ threads[t].pc = "idle"
            /\ threads' = [threads EXCEPT ![t] =
                   IF op = "read_blob_by_index" /\ arg >= Len(ViewIndex(view))
                   THEN [pc |-> "done", view |-> view, op |-> op, arg |-> arg,
                         offset |-> 0, blob_size |-> 0, out |-> IndexOutOfRange]
                   ELSE [pc |-> "at_offset", view |-> view, op |-> op, arg |-> arg,
                         offset |-> IF op = "read_blob_by_index"
                                    THEN ViewIndex(view)[arg + 1].offset
                                    ELSE arg,
                         blob_size |-> 0, out |-> OkNone]]
            /\ UNCHANGED <<file, pc, i_vars, m_vars, p_vars, res, global_pool,
                     string_table, a_vars>>

\* The end-of-file test and the read of the four length bytes.
T_ReadSize ==
    \E t \in Threads :
        /\ threads[t].pc = "at_offset"
        /\ LET c == threads[t]
           IN  threads' = [threads EXCEPT ![t] =
                   IF c.offset + 4 > ViewFileSize(c.view)
                   THEN [c EXCEPT !.pc = "done", !.out = OkNone]
                   ELSE IF ~Mmap_in_bounds(file, c.offset, 4)
                   THEN [c EXCEPT !.pc = "done", !.out = Err(InvalidFormat)]
                   ELSE [c EXCEPT !.pc = "have_size",
                                  !.blob_size = U32At(file, c.offset)]]
        /\ UNCHANGED <<file, pc, i_vars, m_vars, p_vars, res, global_pool,
                     string_table, a_vars>>

\* The size test (MmapBlobReader only), get_bytes and Blob::new_raw.
T_ReadBody ==
    \E t \in Threads :
        /\ threads[t].pc = "have_size"
        /\ LET c == threads[t]
               blob_size == SizeSeen(t)
           IN  threads' = [threads EXCEPT ![t] =
                   IF /\ c.view = "MmapBlobReader"
                      /\ c.offset + 4 + blob_size > ViewFileSize(c.view)
                   THEN [c EXCEPT !.pc = "done", !.out = Err(InvalidFormat)]
                   ELSE IF ~Mmap_in_bounds(file, c.offset + 4, blob_size)
                   THEN [c EXCEPT !.pc = "done", !.out = Err(InvalidFormat)]
                   ELSE [c EXCEPT !.pc = "done",
                                  !.out = Blob_new_raw("OSMData",
                                              BytesOf(Slice(file, c.offset + 4, blob_size)),
                                              c.offset)]]
        /\ UNCHANGED <<file, pc, i_vars, m_vars, p_vars, res, global_pool,
                     string_table, a_vars>>

\* The caller takes the result.
T_Return ==
    \E t \in Threads :
        /\ threads[t].pc = "done"
        /\ threads' = [threads EXCEPT ![t] = Idle]
        /\ UNCHANGED <<file, pc, i_vars, m_vars, p_vars, res, global_pool,
                     string_table, a_vars>>

InitThreads == Init /\ Len(file) <= MaxThreadFileLen

NextThreads ==
    \/ I_BuildStep
    \/ M_BuildStep
    \/ FromReader
    \/ T_Call
    \/ T_ReadSize
    \/ T_ReadBody
    \/ T_Return

SpecThreads == InitThreads /\ [][NextThreads]_vars

-----------------------------------------------------------------------------
(* Sequential iteration: for_each, for_each_filtered, collect_filtered on  *)
(* a Reader, and a pass over stream_filtered's iterator on both readers.   *)

ForEach ==
    \E processor \in Closures :
        /\ Exists("IndexedReader")
        /\ res = NoCall
        /\ res' = Call("for_each", "Reader",
                       [filter |-> <<>>, processor |-> processor],
                       Reader_for_each(file, i_index, processor))
        /\ UNCHANGED <<file, x_vars, pc, i_vars, m_vars, p_vars>>

ForEachFiltered ==
    \E filter \in Filters, processor \in Closures :
        /\ Exists("IndexedReader")
        /\ res = NoCall
        /\ res' = Call("for_each_filtered", "Reader",
                       [filter |-> filter, processor |-> processor],
                       Reader_for_each_filtered(file, i_index, filter, processor))
        /\ UNCHANGED <<file, x_vars, pc, i_vars, m_vars, p_vars>>

CollectFiltered ==
    \E filter \in Filters :
        /\ Exists("IndexedReader")
        /\ res = NoCall
        /\ res' = Call("collect_filtered", "Reader",
                       [filter |-> filter, processor |-> [fails_on |-> 0]],
                       Reader_collect_filtered(file, i_index, filter))
        /\ UNCHANGED <<file, x_vars, pc, i_vars, m_vars, p_vars>>

StreamFiltered ==
    \E reader \in {"IndexedReader", "MmapBlobReader"}, filter \in Filters :
        /\ Exists(reader)
        /\ res = NoCall
        /\ res' = Call("stream_filtered", reader,
                       [filter |-> filter, processor |-> [fails_on |-> 0]],
                       Drain(reader, file,
                             IF reader = "IndexedReader" THEN i_index ELSE m_index,
                             filter, stream_filtered, <<>>))
        /\ UNCHANGED <<file, x_vars, pc, i_vars, m_vars, p_vars>>

NextReader ==
    \/ I_BuildStep
    \/ M_BuildStep
    \/ ForEach
    \/ ForEachFiltered
    \/ CollectFiltered
    \/ StreamFiltered
    \/ Drop

SpecReader == Init /\ [][NextReader]_vars

-----------------------------------------------------------------------------
(* par_map_reduce, called again and again in one process *)

\* Longest input file of the par_map_reduce specification.
MaxParallelFileLen == 6

\* The identity values passed (0 is the identity of `+`).
Identities == {0}

ParMapReduce ==
    \E config \in Configs, identity \in Identities :
        LET r == Reader_par_map_reduce(file, i_index, config, identity, global_pool)
        IN  /\ Exists("IndexedReader")
            /\ res = NoCall
            /\ res' = [op |-> "par_map_reduce", reader |-> "Reader",
                       arg |-> [config |-> config, identity |-> identity],
                       out |-> r.out, events |-> <<>>]
            /\ global_pool' = r.pool_built
            /\ UNCHANGED <<file, threads, string_table, a_vars, pc, i_vars, m_vars, p_vars>>

InitParallel == Init /\ Len(file) <= MaxParallelFileLen

NextParallel ==
    \/ I_BuildStep
    \/ M_BuildStep
    \/ ParMapReduce
    \/ Drop

SpecParallel == InitParallel /\ [][NextParallel]_vars

-----------------------------------------------------------------------------
(* A StringTable on its own: new(), then add_string and the lookups *)

\* The strings added.
Strings == {"", "highway", "name"}

\* add_string is called while the table holds at most this many strings.
MaxStrings == 3

\* Indices looked up: every entry, len() and one past it.
StringIndices == 0..(MaxStrings + 2)

AddString ==
    \E string \in Strings :
        /\ StringTable_len(string_table) <= MaxStrings
        /\ LET r == add_string(string_table, string)
           IN  /\ string_table' = r.st
               /\ res' = [op |-> "add_string", reader |-> "StringTable",
                          arg |-> string, out |-> r.out, events |-> <<>>]
        /\ UNCHANGED <<file, pc, i_vars, m_vars, p_vars, threads, global_pool, a_vars>>

GetString ==
    \E index \in StringIndices :
        /\ res' = [op |-> "get_string", reader |-> "StringTable",
                   arg |-> index, out |-> get_string(string_table, index),
                   events |-> <<>>]
        /\ UNCHANGED <<file, pc, i_vars, m_vars, p_vars, x_vars>>

GetStringOrEmpty ==
    \E index \in StringIndices :
        /\ res' = [op |-> "get_string_or_empty", reader |-> "StringTable",
                   arg |-> index, out |-> get_string_or_empty(string_table, index),
                   events |-> <<>>]
        /\ UNCHANGED <<file, pc, i_vars, m_vars, p_vars, x_vars>>

InitStrings == Init /\ file = <<>>

NextStrings ==
    \/ AddString
    \/ GetString
    \/ GetStringOrEmpty

SpecStrings == InitStrings /\ [][NextStrings]_vars

-----------------------------------------------------------------------------
(* Readers sharing one mapping: from_reader, clone, drop and reads, in any  *)
(* order                                                                    *)

MaxArcFileLen == 5

HolderKind(h) ==
    IF h = MmapBlobReader THEN "MmapBlobReader" ELSE "ParallelMmapBlobReader"

\* ParallelMmapBlobReader::from_reader, any number of times while the
\* MmapBlobReader lives.
A_FromReader ==
    /\ pc = "ready"
    /\ MmapBlobReader \in holders
    /\ \E h \in ParallelReaders : h \notin holders
    /\ holders' = holders \cup {NewHolder(holders)}
    /\ mmap' = Arc_clone(mmap)
    /\ p_made' = TRUE
    /\ p_index' = m_index
    /\ p_file_size' = m_file_size
    /\ UNCHANGED <<file, threads, global_pool, string_table, pc, i_vars, m_vars, res>>

\* The derived Clone of a live ParallelMmapBlobReader.
A_Clone ==
    /\ pc = "ready"
    /\ \E h \in holders : h # MmapBlobReader
    /\ \E h \in ParallelReaders : h \notin holders
    /\ holders' = holders \cup {NewHolder(holders)}
    /\ mmap' = Arc_clone(mmap)
    /\ UNCHANGED <<file, threads, global_pool, string_table, pc, i_vars, m_vars,
                   p_vars, res>>

\* A live reader is dropped.
A_DropReader ==
    \E h \in holders :
        /\ pc = "ready"
        /\ holders' = holders \ {h}
        /\ mmap' = Arc_drop(mmap)
        /\ UNCHANGED <<file, threads, global_pool, string_table, pc, i_vars, m_vars,
                       p_vars, res>>

\* A live reader reads a blob: the call, the readers alive and the region's
\* state while get_slice dereferenced it, and the result (the Blob owns a
\* copy of its bytes).
A_Read ==
    \E h \in holders, offset \in Offsets :
        /\ pc = "ready"
        /\ res = NoCall
        /\ LET r == IF h = MmapBlobReader
                    THEN M_read_blob_at_offset(file, m_file_size, offset)
                    ELSE P_read_blob_at_offset(file, p_file_size, offset)
           IN  res' = [op |-> "read_blob_at_offset", reader |-> HolderKind(h),
                       arg |-> offset, out |-> r.out, events |-> r.events,
                       holder |-> h, live |-> holders,
                       served_from |-> mmap.data]
        /\ UNCHANGED <<file, x_vars, pc, i_vars, m_vars, p_vars>>

InitArc == Init /\ Len(file) <= MaxArcFileLen

NextArc ==
    \/ I_BuildStep
    \/ M_BuildStep
    \/ A_FromReader
    \/ A_Clone
    \/ A_DropReader
    \/ A_Read
    \/ Drop

SpecArc == InitArc /\ [][NextArc]_vars

-----------------------------------------------------------------------------
(* read_blob_at_offset asked for any u64 offset, in either build profile *)

MaxOffsetFileLen == 5

\* Offsets asked for: every position of the file, its end, one past it;
\* 2^32, 2^63; and 2^64 - 5 .. 2^64 - 1, the last four of which make
\* offset + 4 overflow.
U64Offsets ==
    {U64(n) : n \in 0..(Len(file) + 1)}
        \cup {<<0, 1, 0, 0>>, <<Limb \div 2, 0, 0, 0>>}
        \cup {<<Limb - 1, Limb - 1, Limb - 1, Limb - k>> : k \in 1..5}

ReadBlobAtU64Offset ==
    \E reader \in {"MmapBlobReader", "ParallelMmapBlobReader"},
       overflow_checks \in BOOLEAN :
        /\ Exists(reader)
        /\ res = NoCall
        /\ \E offset \in U64Offsets :
               LET r == read_blob_at_u64_offset(
                            reader, file,
                            IF reader = "MmapBlobReader" THEN m_file_size ELSE p_file_size,
                            offset, overflow_checks)
               IN  res' = [op |-> "read_blob_at_offset", reader |-> reader,
                           arg |-> offset, overflow_checks |-> overflow_checks,
                           out |-> r.out, events |-> r.events]
        /\ UNCHANGED <<file, x_vars, pc, i_vars, m_vars, p_vars>>

InitOffset == Init /\ Len(file) <= MaxOffsetFileLen

NextOffset ==
    \/ I_BuildStep
    \/ M_BuildStep
    \/ FromReader
    \/ ReadBlobAtU64Offset
    \/ Drop

SpecOffset == InitOffset /\ [][NextOffset]_vars

-----------------------------------------------------------------------------
(* The two index scans run to their end: build_index under fair scheduling  *)

MaxBuildFileLen == 8

InitBuild == Init /\ Len(file) <= MaxBuildFileLen

NextBuild ==
    \/ I_BuildStep
    \/ M_BuildStep

\* A constructor that was called keeps running: each loop iteration that
\* can be taken is taken.
SpecBuild ==
    InitBuild /\ [][NextBuild]_vars /\ WF_vars(I_BuildStep) /\ WF_vars(M_BuildStep)

-----------------------------------------------------------------------------
(* The counters of for_each and for_each_filtered: the blob loop over small *)
(* files and the element loop over given element vectors                    *)

\* Files: up to this many bytes, alone or after one empty frame.
MaxStatsTailLen == 4

\* The element loop is run over vectors of up to this many elements.
MaxElements == 2

ElementTypes == {"Node", "Way", "Relation", "ChangeSet"}

ElementVectors == SeqsUpTo({[type |-> t, id |-> 1] : t \in ElementTypes}, MaxElements)

\* `for element in elements { .. }` of for_each and for_each_filtered, run
\* on a vector of elements after its blob was counted: the counters it
\* leaves and the result the `?` on the closure gives.
ProcessBlobElements ==
    /\ Exists("IndexedReader")
    /\ res = NoCall
    /\ \E elements \in ElementVectors, processor \in Closures :
           LET counted == [ForEachStart EXCEPT !.stats.blobs_processed = @ + 1]
               after == ProcessElements(elements, processor, counted)
           IN  res' = [op |-> "process_elements", reader |-> "Reader",
                       arg |-> [elements |-> elements, processor |-> processor],
                       out |-> IF after.failed THEN ErrStats(ClosureError)
                               ELSE OkStats(after.stats),
                       events |-> after.events,
                       stats |-> after.stats]
    /\ UNCHANGED <<file, x_vars, pc, i_vars, m_vars, p_vars>>

InitStats ==
    /\ Init
    /\ \/ Len(file) <= MaxStatsTailLen
       \/ /\ Len(file) \in 4..(4 + MaxStatsTailLen)
          /\ SubSeq(file, 1, 4) = <<0, 0, 0, 0>>

NextStats ==
    \/ I_BuildStep
    \/ M_BuildStep
    \/ ForEach
    \/ ForEachFiltered
    \/ ProcessBlobElements
    \/ Drop

SpecStats == InitStats /\ [][NextStats]_vars

-----------------------------------------------------------------------------
(* The physical framing of a file, read off its bytes alone *)

\* The offsets at which a frame's 4-byte length prefix lies: 0, and after
\* each frame the offset 4 + length further on, while 4 bytes remain.
RECURSIVE FrameStartsFrom(_, _)
FrameStartsFrom(f, offset) ==
    IF offset + 4 > Len(f) THEN {}
    ELSE {offset} \cup FrameStartsFrom(f, offset + 4 + U32At(f, offset))

FrameStarts(f) == FrameStartsFrom(f, 0)

\* A frame is complete when its prefix and all the bytes it declares are there.
CompleteAt(f, offset) ==
    offset + 4 <= Len(f) /\ offset + 4 + U32At(f, offset) <= Len(f)

\* The offsets of the complete frames that precede the first incomplete one.
RECURSIVE CompleteStartsFrom(_, _)
CompleteStartsFrom(f, offset) ==
    IF ~CompleteAt(f, offset) THEN <<>>
    ELSE <<offset>> \o CompleteStartsFrom(f, offset + 4 + U32At(f, offset))

CompleteStarts(f) == CompleteStartsFrom(f, 0)

\* Where the complete frames end.
CompleteEnd(f) ==
    LET cs == CompleteStarts(f)
    IN  IF cs = <<>> THEN 0
        ELSE cs[Len(cs)] + 4 + U32At(f, cs[Len(cs)])

\* The file ends with a truncated frame: after the complete frames comes a
\* whole length prefix that declares more bytes than remain.
EndsTruncated(f) ==
    LET e == CompleteEnd(f)
    IN  e + 4 <= Len(f) /\ e + 4 + U32At(f, e) > Len(f)

\* The type a frame's BlobHeader declares.  The frames of this model carry no
\* protobuf header; the first byte of the frame's body stands for its type
\* string: 1 for "OSMHeader", 2 for "OSMData", anything else unknown.
DeclaredType(f, offset) ==
    IF offset + 5 <= Len(f) /\ U32At(f, offset) >= 1
    THEN CASE f[offset + 5] = 1 -> "OSMHeader"
           [] f[offset + 5] = 2 -> "OSMData"
           [] OTHER -> "Unknown"
    ELSE "Unknown"

Offsets_of(blob_index) == [i \in 1..Len(blob_index) |-> blob_index[i].offset]

RECURSIVE SumSizes(_)
SumSizes(blob_index) ==
    IF blob_index = <<>> THEN 0
    ELSE blob_index[1].size + SumSizes(Tail(blob_index))

-----------------------------------------------------------------------------
(* Claims *)

\* The file is made of complete frames and nothing else.
WellFormed(f) == CompleteEnd(f) = Len(f)

\* C1 (as stated, and already over files made of complete frames only, on
\* which neither construction reports an error): the entries of a finished
\* index tile the file, each entry beginning where the one before it ends
\* (offset + size) and the sizes adding up, from the first offset, to the
\* file size.
Tiles(blob_index, file_size) ==
    /\ \A i \in 1..(Len(blob_index) - 1) :
           blob_index[i + 1].offset = blob_index[i].offset + blob_index[i].size
    /\ (blob_index # <<>> =>
           blob_index[1].offset + SumSizes(blob_index) = file_size)

C1_IndexTilesFile ==
    pc = "ready" /\ WellFormed(file) =>
        /\ Tiles(i_index, Len(file))
        /\ (m_state = "ok" => Tiles(m_index, m_file_size))

\* C2: in every state, the offsets of the entries of both indexes (and of the
\* parallel reader's copy) increase strictly, the first entry is at offset 0
\* and every entry lies at the length prefix of a frame of the file.
OffsetsFollowFraming(blob_index) ==
    /\ (blob_index # <<>> => blob_index[1].offset = 0)
    /\ \A i \in 1..(Len(blob_index) - 1) :
           blob_index[i].offset < blob_index[i + 1].offset
    /\ \A i \in 1..Len(blob_index) : blob_index[i].offset \in FrameStarts(file)

HeaderSlotIsFirstHeader(blob_index, header_blob) ==
    LET hs == {i \in 1..Len(blob_index) :
                  DeclaredType(file, blob_index[i].offset) = "OSMHeader"}
    IN  /\ (header_blob # <<>> <=> hs # {})
        /\ (hs # {} /\ header_blob # <<>> =>
               header_blob[1] = blob_index[CHOOSE i \in hs : \A j \in hs : i <= j])

C3_HeaderSlotIsFirstHeader ==
    pc = "ready" /\ WellFormed(file) =>
        /\ HeaderSlotIsFirstHeader(i_index, i_header)
        /\ (m_state = "ok" => HeaderSlotIsFirstHeader(m_index, m_header))

\* C4 (as stated): over a file that is exactly one frame declaring OSMHeader,
\* statistics() reports one header blob and no data blob, for both readers.
OneHeaderFrame(f) ==
    /\ CompleteAt(f, 0)
    /\ 4 + U32At(f, 0) = Len(f)
    /\ DeclaredType(f, 0) = "OSMHeader"

C4_HeaderOnlyStatistics ==
    pc = "ready" /\ OneHeaderFrame(file) =>
        /\ Statistics(i_index).header_blobs = 1
        /\ Statistics(i_index).data_blobs = 0
        /\ m_state = "ok"
        /\ Statistics(m_index).header_blobs = 1
        /\ Statistics(m_index).data_blobs = 0

\* C5 (as stated): over a file that ends with a truncated frame both
\* constructions succeed and index exactly the complete frames before it.
C5_TruncatedTailNotIndexed ==
    pc = "ready" /\ EndsTruncated(file) =>
        /\ Offsets_of(i_index) = CompleteStarts(file)
        /\ m_state = "ok"
        /\ Offsets_of(m_index) = CompleteStarts(file)

\* C6 (as stated): at an offset where no byte remains the result is None;
\* where 1 to 3 bytes remain, or the body is shorter than declared, it is an
\* error.  For read_blob_at_offset and for the header read of the index scan.
EofPolicy(kind, offset) ==
    LET remaining == Len(file) - offset
    IN  /\ (remaining = 0 => kind = "None")
        /\ (remaining \in 1..3 => kind = "Err")
        /\ (remaining >= 4 /\ ~CompleteAt(file, offset) => kind = "Err")

C6_EofPolicy ==
    /\ (res.op = "read_blob_at_offset" => EofPolicy(res.out.kind, res.arg))
    /\ (pc = "m_build" /\ m_cur < m_file_size =>
           EofPolicy(M_read_blob_header_at_offset(file, m_file_size, m_cur).kind, m_cur))

\* C7 (as stated): a frame whose length prefix exceeds 65 536 makes
\* read_blob_at_offset return HeaderTooLarge with that length, and no index
\* holds an entry for such a frame.
NoOversizedHeaderIndexed(blob_index) ==
    \A i \in 1..Len(blob_index) :
        U32At(file, blob_index[i].offset) <= MAX_BLOB_HEADER_SIZE

C7_HeaderTooLargeRejected ==
    /\ (res.op = "read_blob_at_offset" /\ res.arg + 4 <= Len(file)
           /\ U32At(file, res.arg) > MAX_BLOB_HEADER_SIZE)
          => res.out = BlobHeader_validate_size(U32At(file, res.arg))
    /\ NoOversizedHeaderIndexed(i_index)
    /\ NoOversizedHeaderIndexed(m_index)

\* C8 (as stated): new_raw and new_zlib return MessageTooLarge{size, max}
\* exactly when the uncompressed size (the payload length for raw, raw_size
\* for zlib) exceeds 33 554 432, and a Blob otherwise.
C8_MessageTooLargeExactly ==
    /\ (res.op = "new_raw" =>
           IF UsizeGreater(res.arg, Usize(MAX_BLOB_MESSAGE_SIZE))
           THEN /\ res.out.kind = "Err"
                /\ res.out.err.variant = "MessageTooLarge"
                /\ res.out.err.max = MAX_BLOB_MESSAGE_SIZE
           ELSE res.out.kind = "Some")
    /\ (res.op = "new_zlib" =>
           IF res.arg.raw_size > MAX_BLOB_MESSAGE_SIZE
           THEN res.out = Err(MessageTooLarge(res.arg.raw_size))
           ELSE res.out.kind = "Some")

\* C9 (as stated): in a read of a blob that declares more than 32 MiB, no
\* buffer of the declared size is allocated or filled before the size check.
C9_SizeCheckBeforeAllocation ==
    res.op \in {"read_blob_at_offset", "read_blob_by_index"} =>
        \A k \in 1..Len(res.events) :
            (res.events[k].ev \in {"alloc", "read_body"}
                /\ res.events[k].n > MAX_BLOB_MESSAGE_SIZE)
            => \E j \in 1..(k - 1) : res.events[j].ev = "validate_size"

\* C10: blob_count() of the reader a call was made on.
BlobCount(reader) ==
    CASE reader = "IndexedReader" -> Len(i_index)
      [] reader = "MmapBlobReader" -> Len(m_index)
      [] OTHER -> Len(p_index)

OutOfRangeCall ==
    res.op = "read_blob_by_index" /\ res.arg >= BlobCount(res.reader)

\* C10 (as stated): read_blob_by_index(i) with i >= blob_count() returns an
\* error of kind OutOfRange.
C10_OutOfRangeKind ==
    OutOfRangeCall => res.out.kind = "Err" /\ res.out.err.variant = "OutOfRange"

\* C10 (amended): read_blob_by_index(i) with i >= blob_count() returns
\* Err(InvalidFormat) on each of the three readers, and the call leaves every
\* index and header slot as it was.
C10_OutOfRangeIsInvalidFormat ==
    /\ [](OutOfRangeCall => res.out = Err(InvalidFormat))
    /\ [][res' # res /\ res'.op = "read_blob_by_index" =>
             UNCHANGED <<i_index, i_header, i_offset_to_index,
                         m_index, m_header, m_file_size, p_index, p_file_size>>]_vars

\* C10's case: the parallel reader of a non-empty index was asked for an
\* index at or past blob_count().
C10_OutOfRangeAsked ==
    /\ OutOfRangeCall
    /\ res.reader = "ParallelMmapBlobReader"
    /\ Len(p_index) >= 1
    /\ Len(i_index) >= 1

\* The range offset .. offset + len lies inside a file of n bytes, the sum
\* taken over the integers.
FitsMapping(offset, len, n) ==
    /\ \A i \in 1..3 : offset[i] = 0 /\ len[i] = 0
    /\ offset[4] + len[4] <= n

\* C11: get_raw_slice(offset, len) returns exactly the len bytes of the
\* file that start at offset when offset + len <= file_size, every
\* dereference it made lying inside the mapping; otherwise it returns
\* InvalidFormat and has dereferenced nothing.  This for every usize offset
\* and len, those whose sum overflows a usize included.
C11_RawSliceInBounds ==
    res.op = "get_raw_slice" =>
        LET offset == res.arg.offset
            len == res.arg.len
        IN  IF FitsMapping(offset, len, m_file_size)
            THEN /\ res.out.kind = "Slice"
                 /\ res.out.len = len
                 /\ res.out.content = Slice(file, offset[4], len[4])
                 /\ Len(res.out.content) = len[4]
                 /\ \A i \in 1..Len(res.events) :
                        FitsMapping(res.events[i].at, res.events[i].n, Len(file))
            ELSE /\ res.out = ErrSlice(InvalidFormat)
                 /\ res.events = <<>>

\* A pair whose sum overflows a usize was asked for and refused.
C11_OverflowingPairRejected ==
    /\ res.op = "get_raw_slice"
    /\ AddWithCarry(res.arg.offset, res.arg.len)[1] # 0
    /\ res.out.kind = "Err"

\* What a call returns when it is the only one running.
Alone(view, op, arg) ==
    CASE view = "MmapBlobReader" /\ op = "read_blob_at_offset" ->
             M_read_blob_at_offset(file, m_file_size, arg).out
      [] view = "MmapBlobReader" /\ op = "read_blob_by_index" ->
             M_read_blob_by_index(file, m_file_size, m_index, arg).out
      [] view = "ParallelMmapBlobReader" /\ op = "read_blob_at_offset" ->
             P_read_blob_at_offset(file, p_file_size, arg).out
      [] OTHER ->
             P_read_blob_by_index(file, p_file_size, p_index, arg).out

\* C12: whatever the other threads are doing, a finished read holds the
\* result the same call gives alone, and no step of a read changes the
\* mapped bytes, an index or a file size.
C12_ConcurrentReadsAsAlone ==
    /\ [](\A t \in Threads :
            threads[t].pc = "done" =>
                threads[t].out = Alone(threads[t].view, threads[t].op, threads[t].arg))
    /\ [][threads' # threads =>
             UNCHANGED <<file, m_index, m_header, m_file_size, p_index, p_file_size>>]_vars

\* One thread has read a blob through one view while another thread is in
\* the middle of a read through the other view.
C12_TwoReadsInFlight ==
    \E t, u \in Threads :
        /\ threads[t].pc = "done"
        /\ threads[t].out.kind = "Some"
        /\ threads[u].pc = "have_size"
        /\ threads[u].view # threads[t].view

-----------------------------------------------------------------------------
(* What a file stores, read off its bytes alone *)

\* The elements a blob's payload stores.  The payloads of this model carry
\* no PrimitiveBlock; each non-zero payload byte stands for one node, whose
\* id is the byte.
RECURSIVE StoredElements(_)
StoredElements(content) ==
    IF content = <<>> THEN <<>>
    ELSE (IF Head(content) = 0 THEN <<>>
          ELSE <<[type |-> "Node", id |-> Head(content)]>>)
         \o StoredElements(Tail(content))

\* The elements stored in the complete frames that start at `starts`.
RECURSIVE ElementsOfFrames(_, _)
ElementsOfFrames(f, starts) ==
    IF starts = <<>> THEN <<>>
    ELSE StoredElements(Slice(f, starts[1] + 4, U32At(f, starts[1])))
         \o ElementsOfFrames(f, Tail(starts))

FileElements(f) == ElementsOfFrames(f, CompleteStarts(f))

\* The id range an index entry would record for the frame at `offset`:
\* <<>> when the frame stores no element, else <<least id, greatest id>>.
RecordedIdRange(f, offset) ==
    LET ids == IF CompleteAt(f, offset)
               THEN {f[i] : i \in (offset + 5)..(offset + 4 + U32At(f, offset))} \ {0}
               ELSE {}
    IN  IF ids = {} THEN <<>>
        ELSE <<CHOOSE a \in ids : \A b \in ids : a <= b,
               CHOOSE a \in ids : \A b \in ids : a >= b>>

-----------------------------------------------------------------------------
(* Claims on sequential iteration, filtering and par_map_reduce *)

ForEachOps == {"for_each", "for_each_filtered"}

Reads(events) == SelectSeq(events, LAMBDA e : e.ev = "read")
Considered(events) == SelectSeq(events, LAMBDA e : e.ev = "consider")

StrictlyIncreasing(s) == \A i, j \in 1..Len(s) : i < j => s[i] < s[j]

ReadFails(k) == I_read_blob_by_index(file, i_index, k).out.kind = "Err"

C15_BlobsVisitedInFileOrder ==
    res.op \in ForEachOps \cup {"collect_filtered", "stream_filtered"} =>
        LET reads == Reads(res.events)
            considered == Considered(res.events)
        IN  /\ StrictlyIncreasing([i \in 1..Len(reads) |-> reads[i].offset])
            /\ StrictlyIncreasing([i \in 1..Len(reads) |-> reads[i].index])
            /\ StrictlyIncreasing([i \in 1..Len(considered) |-> considered[i].index])
            /\ StrictlyIncreasing([i \in 1..Len(considered) |-> considered[i].offset])

\* A pass of for_each that read and processed two blobs.
C15_TwoBlobsRead ==
    /\ res.op = "for_each"
    /\ Len(Reads(res.events)) >= 2
    /\ res.out.kind = "Stats"
    /\ res.out.stats.blobs_processed >= 2

\* The index the reader of a call holds.
IndexOf(reader) == IF reader = "MmapBlobReader" THEN m_index ELSE i_index

\* C16 (as stated, over files made of complete frames only): a pass over
\* stream_filtered(ElementFilter::all()) on a freshly built index yields one
\* item for every OSMData entry.
C16_AllFilterYieldsEveryDataBlob ==
    (/\ res.op = "stream_filtered"
     /\ res.arg.filter = ElementFilter_all
     /\ WellFormed(file))
    => Len(res.out.items) =
            Cardinality({i \in 1..Len(IndexOf(res.reader)) :
                            IndexOf(res.reader)[i].blob_type = "OSMData"})

\* The id range lies outside every range of the filter.
DisjointFromAll(id_range, id_ranges) ==
    /\ id_range # <<>>
    /\ \A i \in 1..Len(id_ranges) :
           id_range[2] < id_ranges[i][1] \/ id_ranges[i][2] < id_range[1]

C18_ParallelEqualsSequentialFold ==
    res.op = "par_map_reduce" =>
        res.out = OkValue(Fold(res.arg.identity,
                               Handed(Reader_for_each(file, i_index,
                                                      [fails_on |-> 0]).events)))

\* C19 (as stated; called with num_threads = None on a file of complete
\* frames): par_map_reduce with map = id, identity 0 and `+` returns the sum
\* of the ids of the elements the file stores.
C19_ReduceCountsEveryElement ==
    (/\ res.op = "par_map_reduce"
     /\ res.arg.config.num_threads = <<>>
     /\ res.arg.identity = 0
     /\ WellFormed(file))
    => res.out = OkValue(Fold(0, FileElements(file)))

\* F1 is contained in F2, component by component (an empty id_ranges list
\* admits every id).
RangesContained(r1, r2) ==
    \/ r2 = <<>>
    \/ /\ r1 # <<>>
       /\ \A i \in 1..Len(r1) : \E j \in 1..Len(r2) :
              r2[j][1] <= r1[i][1] /\ r1[i][2] <= r2[j][2]

Contained(F1, F2) ==
    /\ F1.include_nodes => F2.include_nodes
    /\ F1.include_ways => F2.include_ways
    /\ F1.include_relations => F2.include_relations
    /\ F1.include_changesets => F2.include_changesets
    /\ F1.resolve_dependencies => F2.resolve_dependencies
    /\ RangesContained(F1.id_ranges, F2.id_ranges)

\* The offsets of the blobs a pass over stream_filtered(filter) yields.
Yielded(reader, filter) ==
    LET items == Drain(reader, file, IndexOf(reader), filter, stream_filtered, <<>>).out.items
    IN  {items[i].blob[1].offset : i \in {j \in 1..Len(items) : items[j].kind = "Some"}}

\* The elements collect_filtered(filter) returns.
Collected(filter) ==
    LET elements == Reader_collect_filtered(file, i_index, filter).out.elements
    IN  {elements[i] : i \in 1..Len(elements)}

\* The index entries an iterator can meet: every type, every pattern of
\* known and unknown counts.
Entries ==
    {[offset |-> 0, size |-> 0, blob_type |-> t, id_range |-> <<>>,
      element_counts |-> [nodes |-> n, ways |-> w, relations |-> r, changesets |-> c]] :
        t \in BlobTypes, n \in {0, 1}, w \in {0, 1}, r \in {0, 1}, c \in {0, 1}}

-----------------------------------------------------------------------------
(* C21: the two index constructions compared *)

\* IndexedReader::new returned Ok: build_index ends with Ok(()) on every
\* outcome of its scan (its Err arm logs and breaks).
I_new_ok == pc # "i_build"

\* C21 (as stated): over the same bytes IndexedReader::new and
\* MmapBlobReader::from_file either both succeed, with equal entry counts,
\* offsets, sizes, types and header slot, or both fail.
C21_ReadersBuildSameIndex ==
    pc = "ready" =>
        IF m_state = "ok"
        THEN /\ I_new_ok
             /\ Len(i_index) = Len(m_index)
             /\ \A k \in 1..Len(i_index) :
                    /\ i_index[k].offset = m_index[k].offset
                    /\ i_index[k].size = m_index[k].size
                    /\ i_index[k].blob_type = m_index[k].blob_type
             /\ i_header = m_header
        ELSE ~I_new_ok

-----------------------------------------------------------------------------
(* C22: the empty input *)

\* C22: over a zero-byte input both constructions succeed with blob_count()
\* = 0 and header_blob() = None, statistics() reports zero blobs,
\* stream_filtered yields no blob under any filter, and for_each reads no
\* blob, never invokes the closure and returns empty statistics.
C22_EmptyInputEmptyReaders ==
    pc = "ready" /\ file = <<>> =>
        /\ m_state = "ok"
        /\ \A reader \in {"IndexedReader", "MmapBlobReader"} :
               LET blob_index == IF reader = "IndexedReader" THEN i_index ELSE m_index
                   header_blob == IF reader = "IndexedReader" THEN i_header ELSE m_header
               IN  /\ Len(blob_index) = 0
                   /\ header_blob = <<>>
                   /\ Statistics(blob_index) =
                          [total_blobs |-> 0, header_blobs |-> 0,
                           data_blobs |-> 0, unknown_blobs |-> 0]
                   /\ \A filter \in Filters :
                          LET d == Drain(reader, file, blob_index, filter,
                                         stream_filtered, <<>>)
                          IN  d.out.items = <<>> /\ d.events = <<>>
        /\ m_file_size = 0
        /\ (res.op \in {"for_each", "for_each_filtered"} =>
                /\ res.events = <<>>
                /\ res.out = OkStats(ProcessingStats_default))
        /\ (res.op = "stream_filtered" => res.out.items = <<>>)

\* for_each has run over the readers of the empty input.
C22_ForEachOverEmptyInput ==
    /\ pc = "ready"
    /\ file = <<>>
    /\ m_state = "ok"
    /\ res.op = "for_each"
    /\ res.arg.processor.fails_on = 1

-----------------------------------------------------------------------------
(* C23: ParallelMmapBlobReader against the MmapBlobReader it was made from *)

\* C23: once from_reader has made a ParallelMmapBlobReader, for every offset
\* and every index its read_blob_at_offset and read_blob_by_index return
\* what the MmapBlobReader's return (None, an error of the same kind, or a
\* Blob with equal offset, type and payload), and blob_count() is equal.
C23_ParallelReadsAsMmapReads ==
    p_made =>
        /\ m_state = "ok"
        /\ Len(p_index) = Len(m_index)
        /\ \A offset \in Offsets :
               P_read_blob_at_offset(file, p_file_size, offset).out =
                   M_read_blob_at_offset(file, m_file_size, offset).out
        /\ \A index \in Indices :
               P_read_blob_by_index(file, p_file_size, p_index, index).out =
                   M_read_blob_by_index(file, m_file_size, m_index, index).out
        /\ (res.reader = "ParallelMmapBlobReader" /\ res.op = "read_blob_at_offset" =>
                res.out = M_read_blob_at_offset(file, m_file_size, res.arg).out)
        /\ (res.reader = "ParallelMmapBlobReader" /\ res.op = "read_blob_by_index" =>
                res.out = M_read_blob_by_index(file, m_file_size, m_index, res.arg).out)

\* The ParallelMmapBlobReader was asked for an offset inside the file whose
\* length prefix reaches past the end, in a file where another offset holds
\* a blob: the call returned an error.
C23_ParallelReadPastEnd ==
    /\ p_made
    /\ res.reader = "ParallelMmapBlobReader"
    /\ res.op = "read_blob_at_offset"
    /\ res.arg + 4 <= Len(file)
    /\ res.out.kind = "Err"
    /\ Len(p_index) >= 1

-----------------------------------------------------------------------------
(* C24, C25: StringTable *)

\* C24: in a table made by new(), after any sequence of add_string calls,
\* get_string(0) = Some("") and get_string_or_empty(0) = "".
C24_IndexZeroIsEmptyString ==
    /\ get_string(string_table, 0) = <<"">>
    /\ get_string_or_empty(string_table, 0) = ""
    /\ (res.op = "get_string" /\ res.arg = 0 => res.out = <<"">>)
    /\ (res.op = "get_string_or_empty" /\ res.arg = 0 => res.out = "")

\* Index 0 was looked up after the empty string and another string were
\* added.
C24_IndexZeroAfterAdds ==
    /\ res.op = "get_string"
    /\ res.arg = 0
    /\ StringTable_len(string_table) >= 3
    /\ \E i \in 2..Len(string_table.s) : string_table.s[i] = ""
    /\ \E i \in 2..Len(string_table.s) : string_table.s[i] # ""

\* C25: add_string(s) returns k = len() before the call; afterwards len() =
\* k + 1, get_string(k) = Some(s) and every index below k resolves as
\* before; get_string(i) = None for every i >= len().
C25_AddStringAppends ==
    /\ [](\A index \in StringIndices :
              index >= StringTable_len(string_table) =>
                  get_string(string_table, index) = <<>>)
    /\ [](res.op = "get_string" /\ res.arg >= StringTable_len(string_table) =>
              res.out = <<>>)
    /\ [][string_table' # string_table =>
             LET k == StringTable_len(string_table)
             IN  /\ res'.op = "add_string"
                 /\ res'.out = k
                 /\ StringTable_len(string_table') = k + 1
                 /\ get_string(string_table', k) = <<res'.arg>>
                 /\ \A index \in 0..(k - 1) :
                        get_string(string_table', index) =
                            get_string(string_table, index)]_vars

\* add_string was called on a table that already held an added string.
C25_StringAddedToGrownTable ==
    /\ res.op = "add_string"
    /\ res.out >= 2
    /\ res.arg # ""

-----------------------------------------------------------------------------
(* C26: the lifetime of the shared mapping *)

\* C26: the strong count is the number of live readers; the region is
\* never released while a reader holds it; it is released at most once, in
\* the step that drops the last holder, and then it is released; every read
\* was served from a mapped region (or from none, for the empty file).
C26_MappingOutlivesReaders ==
    /\ [](/\ mmap.strong = Cardinality(holders)
          /\ (holders # {} => mmap.data \in {"mapped", "null"})
          /\ mmap.munmaps <= 1
          /\ (mmap.data = "released" <=> mmap.munmaps = 1)
          /\ (res.op = "read_blob_at_offset" =>
                  /\ res.served_from \in {"mapped", "null"}
                  /\ (res.served_from = "null" => file = <<>>)))
    /\ [][/\ (mmap'.munmaps # mmap.munmaps => holders # {} /\ holders' = {})
          /\ (holders # {} /\ holders' = {} /\ mmap.data = "mapped" =>
                  mmap'.data = "released" /\ mmap'.munmaps = mmap.munmaps + 1)]_vars

\* The MmapBlobReader has been dropped and a ParallelMmapBlobReader that
\* outlived it has read a blob.
C26_ReadAfterReaderDropped ==
    /\ res.op = "read_blob_at_offset"
    /\ MmapBlobReader \notin res.live
    /\ Cardinality(res.live) = 1
    /\ holders = {}
    /\ mmap.munmaps = 1
    /\ res.out.kind = "Some"

-----------------------------------------------------------------------------
(* C27: read_blob_at_offset on offsets near 2^64 *)

\* offset + 4 > file_size, in the integers.
PrefixPastEnd(offset, file_size) ==
    LET s == AddWithCarry(offset, U64(4))
    IN  s[1] # 0 \/ U64Greater(Tail(s), U64(file_size))

\* Every dereference a call made lies inside the file.
DerefsInFile(events) ==
    \A i \in 1..Len(events) :
        events[i].ev = "deref" => FitsMapping(events[i].at, events[i].n, Len(file))

\* C27 (as stated): for any u64 offset read_blob_at_offset does not panic
\* and does not read outside the file, and when offset + 4 is greater than
\* the file size it returns None or an error.
C27_NoPanicOnAnyOffset ==
    res.op = "read_blob_at_offset" =>
        /\ res.out.kind # "Panic"
        /\ DerefsInFile(res.events)
        /\ (PrefixPastEnd(res.arg, Len(file)) => res.out.kind \in {"None", "Err"})

\* The same with the panic left out: what holds in a build without
\* overflow checks.
C27_ReleaseBuildRejects ==
    res.op = "read_blob_at_offset" /\ ~res.overflow_checks =>
        /\ res.out.kind # "Panic"
        /\ DerefsInFile(res.events)
        /\ (PrefixPastEnd(res.arg, Len(file)) => res.out.kind \in {"None", "Err"})

-----------------------------------------------------------------------------
(* C28: index construction terminates *)

\* C28: both scans end; each iteration of build_index either stops the scan
\* or records one entry and advances the scan offset by at least 4; during
\* and after the scan an index has at most file_size / 4 entries.
C28_BuildIndexTerminates ==
    /\ <>(pc = "ready")
    /\ [](/\ 4 * Len(i_index) <= i_cur
          /\ 4 * Len(m_index) <= m_cur
          /\ Len(i_index) <= Len(file) \div 4
          /\ Len(m_index) <= Len(file) \div 4)
    /\ [][/\ (pc = "i_build" =>
                 \/ pc' = "m_build" /\ i_index' = i_index
                 \/ /\ pc' = "i_build"
                    /\ Len(i_index') = Len(i_index) + 1
                    /\ i_cur' >= i_cur + 4)
          /\ (pc = "m_build" =>
                 \/ pc' = "ready" /\ Len(m_index') <= Len(m_index)
                 \/ /\ pc' = "m_build"
                    /\ Len(m_index') = Len(m_index) + 1
                    /\ m_cur' >= m_cur + 4)]_vars

\* Both scans have ended with as many entries as the file has room for,
\* two or more.
C28_IndexAsLongAsItCanBe ==
    /\ pc = "ready"
    /\ m_state = "ok"
    /\ Len(i_index) >= 2
    /\ 4 * Len(i_index) = Len(file)
    /\ Len(m_index) = Len(i_index)

-----------------------------------------------------------------------------
(* C29: the counters of ProcessingStats *)

StatsConsistent(stats, blob_count) ==
    /\ stats.elements_processed =
           stats.nodes_processed + stats.ways_processed
               + stats.relations_processed + stats.changesets_processed
    /\ stats.blobs_processed + stats.errors_encountered <= blob_count

\* The counters after the first k iterations of the blob loop.
StatsAfterBlobs(k, filter) ==
    ForEachLoop(file, i_index, SubSeq(blob_indices(Len(i_index)), 1, k), filter,
                [fails_on |-> 0], ForEachStart).out.stats

\* C29: after every iteration of the blob loop and of the element loop of
\* for_each and for_each_filtered, and in the statistics they return,
\* elements_processed is the sum of the four counters by type and
\* blobs_processed + errors_encountered is at most blob_count().
C29_StatsStayConsistent ==
    /\ (pc = "ready" =>
            \A k \in 0..Len(i_index), filter \in {<<>>} \cup {<<F>> : F \in Filters} :
                StatsConsistent(StatsAfterBlobs(k, filter), Len(i_index)))
    /\ (res.op \in ForEachOps /\ res.out.kind = "Stats" =>
            /\ StatsConsistent(res.out.stats, Len(i_index))
            /\ res.out.stats =
                   StatsAfterBlobs(Len(i_index),
                                   IF res.op = "for_each" THEN <<>>
                                   ELSE <<res.arg.filter>>))
    /\ (res.op = "process_elements" =>
            /\ StatsConsistent(res.stats, 1)
            /\ res.stats.elements_processed = Len(Handed(res.events))
            /\ res.stats.blobs_processed = 1)

\* The element loop has run over a vector with a node and a way.
C29_ElementsOfTwoTypesCounted ==
    /\ res.op = "process_elements"
    /\ res.out.kind = "Stats"
    /\ res.stats.nodes_processed = 1
    /\ res.stats.ways_processed = 1
    /\ res.stats.elements_processed = 2

-----------------------------------------------------------------------------
(* C30: par_map_reduce called again *)

\* C30 (as stated): a call of par_map_reduce with num_threads = Some(n)
\* made after an earlier such call in the process succeeds and returns what
\* the first call on the same input returned.
C30_ParMapReduceRepeatable ==
    [][(/\ global_pool
        /\ res = NoCall
        /\ res' # NoCall
        /\ res'.op = "par_map_reduce"
        /\ res'.arg.config.num_threads # <<>>) =>
           /\ res'.out.kind = "Value"
           /\ res'.out = Reader_par_map_reduce(file, i_index, res'.arg.config,
                                               res'.arg.identity, FALSE).out]_vars

=============================================================================
